---- MODULE Spec2Model ----
(***************************************************************************)
(* Model of the pairing-and-orchestration engine of src/main.py           *)
(* (VideoOverlayApp): the duration window of get_suitable_overlay_videos, *)
(* the batch driver _process_videos_thread, the job thread process_video, *)
(* the encoder processes it spawns, and the UI callbacks                  *)
(* start_processing / stop_processing / toggle_pause.                     *)
(*                                                                         *)
(* Threads are interleaved at the statements that read or write shared    *)
(* state (processing, paused, current_processes, the semaphore, the       *)
(* progress widgets, the files on disk).  The UI thread runs one callback *)
(* at a time.                                                              *)
(***************************************************************************)
EXTENDS Integers, Sequences, FiniteSets, TLC

(***************************************************************************)
(* Bounds of the model.                                                    *)
(***************************************************************************)
\* number of times the operator presses "start" in a behaviour
MaxSubmits == 2
\* largest probed duration drawn in the pairing specification
MaxDuration == 7
\* largest length of a collection in the collection specification
MaxList == 2
\* number of renames in a behaviour of the collection specification
MaxRenames == 3
\* the length limit of sanitize_filename (255 in the source), scaled down,
\* and the longest file name drawn in the naming specification
NameLimit == 3
MaxNameLen == 5
\* number of lines the stderr pipe of an encoder holds before a write blocks
PipeCap == 1

(***************************************************************************)
(* Program constants.                                                      *)
(***************************************************************************)
\* self.max_concurrent_processes = 3
max_concurrent_processes == 3

\* paths are <<directory, name without extension, extension>>
A_path == <<"dirA", "a", ".mp4">>
B_path == <<"dirA", "b", ".mp4">>
X_path == <<"dirB", "x", ".mp4">>
Y_path == <<"dirB", "y", ".mp4">>
\* a file next to a.mp4 with the same name and another extension
A_avi_path == <<"dirA", "a", ".avi">>

MainPaths == {A_path, B_path}
OverlayPaths == {X_path, Y_path}
Paths == MainPaths \cup OverlayPaths

\* os.path.dirname(p), os.path.basename(p)
dirname(p) == p[1]
basename(p) == <<p[2], p[3]>>
\* os.path.splitext(name)[0] of a base name
splitext_root(name) == name[1]

Drivers == 1..MaxSubmits
\* a job thread is identified by the driver that started it and the
\* position of its main asset in main_video_paths
JobIds == Drivers \X (1..Cardinality(MainPaths))

FileStates == {"absent", "empty", "data"}

VARIABLES
    main_video_paths,     \* self.main_video_paths (sequence of paths)
    overlay_video_paths,  \* self.overlay_video_paths
    disk,                 \* what cv2 reports for each path: [exists, duration]
    processing,           \* self.processing
    paused,               \* self.paused
    current_processes,    \* self.current_processes: process_key -> job whose Popen it holds
    sem,                  \* free slots of self.processing_semaphore
    progress,             \* self.progress_var (percent)
    eta,                  \* self.time_label: "unknown" ("--:--") or "known"
    files,                \* the file at each output path
    ui,                   \* the UI thread: which callback it is in
    submits,              \* number of driver threads started so far
    drv,                  \* the driver threads (_process_videos_thread)
    job,                  \* the job threads (process_video)
    proc,                 \* the encoder process of each job (subprocess.Popen)
    selection,            \* result of the pairing step in the pairing specification
    main_video_durations,    \* self.main_video_durations (path -> duration)
    overlay_video_durations, \* self.overlay_video_durations
    renames,                 \* number of rename_selected_files calls so far
    gpu,                     \* the encoder negotiation of a job: what ffmpeg
                             \* answers, the encoder chosen, the probes run
    filename,                \* a file name and the results of sanitizing it
    pipe                     \* lines in the stderr pipe of each job's encoder

vars == <<main_video_paths, overlay_video_paths, disk, processing, paused,
          current_processes, sem, progress, eta, files, ui, submits, drv,
          job, proc, selection, main_video_durations, overlay_video_durations,
          renames, gpu, filename, pipe>>

(***************************************************************************)
(* get_video_duration: 0 when the container cannot be opened or the       *)
(* metadata is unusable, the duration otherwise.                           *)
(***************************************************************************)
get_video_duration(p) ==
    IF ~disk[p].exists THEN 0
    ELSE IF disk[p].duration > 0 THEN disk[p].duration ELSE 0

(***************************************************************************)
(* get_suitable_overlay_videos: walks overlay_video_paths in order and    *)
(* keeps the overlays whose re-probed duration lies in                     *)
(* [main_duration, 3 * main_duration].                                     *)
(***************************************************************************)
\* a faulty window: the upper end is excluded
RECURSIVE suitable_from_open(_, _)
suitable_from_open(main_duration, overlays) ==
    IF overlays = <<>> THEN <<>>
    ELSE LET overlay_path == Head(overlays)
             overlay_duration == get_video_duration(overlay_path)
             rest == suitable_from_open(main_duration, Tail(overlays))
         IN  IF overlay_duration <= 0 THEN rest
             ELSE IF main_duration <= overlay_duration /\ overlay_duration < main_duration * 3
                  THEN <<overlay_path>> \o rest
                  ELSE rest

RECURSIVE suitable_from(_, _)
suitable_from(main_duration, overlays) ==
    IF overlays = <<>> THEN <<>>
    ELSE LET overlay_path == Head(overlays)
             overlay_duration == get_video_duration(overlay_path)
             min_duration == main_duration
             max_duration == main_duration * 3
             rest == suitable_from(main_duration, Tail(overlays))
         IN  IF overlay_duration <= 0 THEN rest
             ELSE IF min_duration <= overlay_duration /\ overlay_duration <= max_duration
                  THEN <<overlay_path>> \o rest
                  ELSE rest

get_suitable_overlay_videos(main_video_path) ==
    LET main_duration == get_video_duration(main_video_path)
    IN  IF main_duration <= 0 THEN <<>>
        ELSE suitable_from(main_duration, overlay_video_paths)

Range(s) == {s[i] : i \in DOMAIN s}

\* the pairing step of the driver for one main asset: the overlays
\* random.choice may return; empty when the file is missing (the asset is
\* reported and skipped) or no overlay is suitable (skipped)
pairing(main_video_path) ==
    IF ~disk[main_video_path].exists THEN {}
    ELSE Range(get_suitable_overlay_videos(main_video_path))

(***************************************************************************)
(* Records of the threads and processes.                                   *)
(***************************************************************************)
\* total_videos: len(self.main_video_paths) when the driver thread started
NoDriver == [pc |-> "none", idx |-> 1, processed_count |-> 0, total_videos |-> 0]
\* outcome: "completed", "cancelled" (early return) or "failed"; why: the
\* exception of a failed job ("setup", "read", "exit", "output" or
\* "KeyError"); rc: process.returncode as the check at line 836 read it
\* (<<>>: not read); cleanup: "ok", or the error that releasing the key
\* raised
NoJob == [pc |-> "none", overlay |-> <<>>, pcount |-> 0, outcome |-> "none",
          why |-> "none", rc |-> <<>>, cleanup |-> "ok"]
\* st: "none", "running", "exited" (by itself) or "terminated" (by
\* terminate/kill); stop_req: stop_processing ran while the process was
\* running and was not in the map it walked
NoProc == [st |-> "none", stop_req |-> FALSE]
EmptyMap == [k \in {} |-> <<>>]

\* the hardware encoders check_gpu_support looks for, in its order
Families == <<"h264_nvenc", "h264_amf">>
\* use_gpu: self.use_gpu (True after construction); listing: whether
\* "ffmpeg -encoders" runs ("ok") or subprocess.run raises ("raise");
\* encoders: the hardware encoders its output names; test: what the test
\* encode of each does ("pass": exit code 0, "fail": another exit code,
\* "raise": subprocess.run raises); video_encoder: the encoder of the job's
\* command ("none": not negotiated yet, "raised": an exception reached the
\* job); probes: the subprocess.run calls made
NoGpu == [use_gpu |-> TRUE, listing |-> "ok", encoders |-> {},
          test |-> [f \in Range(Families) |-> "fail"],
          video_encoder |-> "none", probes |-> 0]

\* the main asset a job thread was started for
main_of(j) == main_video_paths[j[2]]

\* process_key = f"{main_video_path}_{overlay_video_path}"
process_key(j) == <<main_of(j), job[j].overlay>>

\* output_path = join(dirname(main)/output, output_<main>_C_<overlay>.mp4),
\* <main> and <overlay> the base names without their extensions
\* (self.output_directory is None after construction; sanitize_filename
\* leaves a name of these characters and this length as it is)
output_path(main_video_path, overlay_video_path) ==
    <<dirname(main_video_path), "output",
      splitext_root(basename(main_video_path)),
      splitext_root(basename(overlay_video_path))>>

out_of(j) == output_path(main_of(j), job[j].overlay)

OutputPaths == {output_path(m, o) : m \in MainPaths, o \in OverlayPaths}

\* progress = (processed_count / total_videos) * 100 if total_videos > 0 else 0
percentage(processed_count, total_videos) ==
    IF total_videos > 0 THEN (processed_count * 100) \div total_videos ELSE 0

\* del d[k] / d[k] = v on the active-process map
map_del(m, k) == [x \in (DOMAIN m) \ {k} |-> m[x]]
map_put(m, k, v) == [x \in (DOMAIN m) \cup {k} |-> IF x = k THEN v ELSE m[x]]

\* if process_key in self.current_processes: del self.current_processes[process_key]
release_key(m, k) == IF k \in DOMAIN m THEN map_del(m, k) ELSE m

\* if os.path.exists(output_path): os.remove(output_path)
remove_output(f, p) == IF f[p] # "absent" THEN [f EXCEPT ![p] = "absent"] ELSE f

(***************************************************************************)
(* Initial state: the state after __init__, with the two collections      *)
(* already filled by add_video.                                            *)
(***************************************************************************)
Media(e, d) == [exists |-> e, duration |-> d]

\* the files the batch specification runs on: x suits both main assets;
\* in the second the file of a has disappeared, in the third a is too long
\* for every overlay
BatchDisks ==
    { [p \in Paths |-> CASE p = A_path -> Media(TRUE, 2)
                         [] p = B_path -> Media(TRUE, 4)
                         [] p = X_path -> Media(TRUE, 4)
                         [] p = Y_path -> Media(TRUE, 1)],
      [p \in Paths |-> CASE p = A_path -> Media(FALSE, 2)
                         [] p = B_path -> Media(TRUE, 4)
                         [] p = X_path -> Media(TRUE, 4)
                         [] p = Y_path -> Media(TRUE, 1)],
      [p \in Paths |-> CASE p = A_path -> Media(TRUE, 5)
                         [] p = B_path -> Media(TRUE, 4)
                         [] p = X_path -> Media(TRUE, 4)
                         [] p = Y_path -> Media(TRUE, 1)] }

InitApp ==
    /\ processing = FALSE
    /\ paused = FALSE
    /\ current_processes = EmptyMap
    /\ sem = max_concurrent_processes
    /\ progress = 0
    /\ eta = "unknown"
    /\ files = [p \in OutputPaths |-> "absent"]
    /\ ui = "idle"
    /\ submits = 0
    /\ drv = [d \in Drivers |-> NoDriver]
    /\ job = [j \in JobIds |-> NoJob]
    /\ proc = [j \in JobIds |-> NoProc]
    /\ selection = <<>>
    /\ renames = 0
    /\ pipe = [j \in JobIds |-> 0]

\* the duration index add_video filled when the files of a collection were
\* added: every file was readable then (1 stands for the duration of a file
\* that is unreadable now)
added_index(paths) ==
    [p \in Range(paths) |-> IF disk[p].duration > 0 THEN disk[p].duration ELSE 1]

Init ==
    /\ main_video_paths = <<A_path, B_path>>
    /\ overlay_video_paths = <<X_path, Y_path>>
    /\ disk \in BatchDisks
    /\ main_video_durations = added_index(main_video_paths)
    /\ overlay_video_durations = added_index(overlay_video_paths)
    /\ gpu = NoGpu
    /\ filename = <<>>
    /\ InitApp

static == <<main_video_paths, overlay_video_paths, disk, selection,
            main_video_durations, overlay_video_durations, renames, gpu,
            filename, pipe>>

\* the UI thread is between callbacks ("stopped": the last callback that
\* changed the session was a completed stop_processing; "rejected": it was a
\* start_processing that returned after its warning; "ignored": it was a
\* stop_processing or toggle_pause that returned at "if not self.processing")
ui_idle == ui \in {"idle", "stopped", "rejected", "ignored"}

(***************************************************************************)
(* start_processing (UI thread).  The start button is disabled while      *)
(* processing is set (update_buttons_state), so the callback runs only    *)
(* when it is clear.  With an empty collection it shows its warning and   *)
(* returns.                                                                *)
(***************************************************************************)
\* a faulty start: only the main collection is validated
start_processing_main_only ==
    /\ ui_idle
    /\ ~processing
    /\ submits < MaxSubmits
    /\ IF main_video_paths = <<>>
       THEN /\ ui' = "rejected"
            /\ UNCHANGED <<processing, paused, submits, drv>>
       ELSE /\ processing' = TRUE
            /\ paused' = FALSE
            /\ submits' = submits + 1
            /\ ui' = "idle"
            /\ drv' = [drv EXCEPT ![submits + 1] =
                          [NoDriver EXCEPT !.pc = "loop",
                                           !.total_videos = Len(main_video_paths)]]
    /\ UNCHANGED <<static, current_processes, sem, progress, eta, files, job,
                   proc>>

start_processing ==
    /\ ui_idle
    /\ ~processing
    /\ submits < MaxSubmits
    /\ IF main_video_paths = <<>> \/ overlay_video_paths = <<>>
       THEN /\ ui' = "rejected"
            /\ UNCHANGED <<processing, paused, submits, drv>>
       ELSE /\ processing' = TRUE
            /\ paused' = FALSE
            /\ submits' = submits + 1
            /\ ui' = "idle"
            /\ drv' = [drv EXCEPT ![submits + 1] =
                          [NoDriver EXCEPT !.pc = "loop",
                                           !.total_videos = Len(main_video_paths)]]
    /\ UNCHANGED <<static, current_processes, sem, progress, eta, files, job,
                   proc>>

(***************************************************************************)
(* update_progress                                                         *)
(***************************************************************************)
update_progress(processed_count, total_videos) ==
    IF ~processing
    THEN UNCHANGED <<progress, eta>>
    ELSE /\ progress' = percentage(processed_count, total_videos)
         /\ eta' = IF processed_count > 0 THEN "known" ELSE eta

(***************************************************************************)
(* _process_videos_thread (one per start_processing)                      *)
(***************************************************************************)
\* the driver's finally block; the threads it started are gone with it
drv_finally(d) ==
    /\ processing' = FALSE
    /\ current_processes' = EmptyMap
    /\ progress' = 0
    /\ eta' = "unknown"
    /\ drv' = [drv EXCEPT ![d] = [NoDriver EXCEPT !.pc = "done"]]
    /\ job' = [j \in JobIds |-> IF j[1] = d THEN NoJob ELSE job[j]]

\* a faulty driver: the thread is started and not joined
drv_dispatch_nojoin(d, i, overlay_video_path) ==
    /\ job' = [job EXCEPT ![<<d, i>>] =
                  [NoJob EXCEPT !.pc = "acquire",
                                !.overlay = overlay_video_path,
                                !.pcount = drv[d].processed_count]]
    /\ drv' = [drv EXCEPT ![d].processed_count = @ + 1, ![d].idx = i + 1]
    /\ update_progress(drv[d].processed_count + 1, drv[d].total_videos)
    /\ UNCHANGED <<processing, current_processes>>

\* thread = Thread(target=process_video, args=(main, overlay, total,
\* processed_count)); thread.start(); processed_count += 1
\* (the job reads total_videos from the record of its driver, which waits
\* for it)
drv_dispatch(d, i, overlay_video_path) ==
    /\ job' = [job EXCEPT ![<<d, i>>] =
                  [NoJob EXCEPT !.pc = "acquire",
                                !.overlay = overlay_video_path,
                                !.pcount = drv[d].processed_count]]
    /\ drv' = [drv EXCEPT ![d].processed_count = @ + 1, ![d].pc = "update"]
    /\ UNCHANGED <<processing, current_processes, progress, eta>>

\* self.update_progress(processed_count, total_videos) (923), which the
\* driver reaches while the job thread it has started is already running
drv_update(d) ==
    /\ drv[d].pc = "update"
    /\ update_progress(drv[d].processed_count, drv[d].total_videos)
    /\ drv' = [drv EXCEPT ![d].pc = "join"]
    /\ UNCHANGED <<static, processing, paused, current_processes, sem, files,
                   ui, submits, job, proc>>

\* a faulty driver: a main asset that cannot be paired ends the batch
drv_loop_break(d) ==
    /\ drv[d].pc = "loop"
    /\ LET i == drv[d].idx IN
       IF i > Len(main_video_paths) \/ ~processing
       THEN drv_finally(d)
       ELSE LET main_video_path == main_video_paths[i]
            IN  IF pairing(main_video_path) = {}
                THEN drv_finally(d)
                ELSE \E overlay_video_path \in pairing(main_video_path) :
                        drv_dispatch(d, i, overlay_video_path)
    /\ UNCHANGED <<static, paused, sem, files, ui, submits, proc>>

\* one pass through the top of the for loop: the end of the list or the
\* stop flag leads to the finally block, a missing file or an empty pairing
\* to the next main asset, anything else to a job thread
drv_loop(d) ==
    /\ drv[d].pc = "loop"
    /\ LET i == drv[d].idx IN
       IF i > Len(main_video_paths) \/ ~processing
       THEN drv_finally(d)
       ELSE LET main_video_path == main_video_paths[i]
            IN  IF pairing(main_video_path) = {}
                THEN /\ drv' = [drv EXCEPT ![d].idx = i + 1]
                     /\ UNCHANGED <<job, processing, current_processes,
                                    progress, eta>>
                ELSE \E overlay_video_path \in pairing(main_video_path) :
                        drv_dispatch(d, i, overlay_video_path)
    /\ UNCHANGED <<static, paused, sem, files, ui, submits, proc>>

\* a faulty driver: the failure of the joined job ends the batch
drv_join_raise(d) ==
    /\ drv[d].pc = "join"
    /\ job[<<d, drv[d].idx>>].pc = "done"
    /\ IF job[<<d, drv[d].idx>>].outcome = "failed"
       THEN drv_finally(d)
       ELSE /\ drv' = [drv EXCEPT ![d].idx = @ + 1, ![d].pc = "loop"]
            /\ job' = [job EXCEPT ![<<d, drv[d].idx>>] = [NoJob EXCEPT !.pc = "done"]]
            /\ UNCHANGED <<processing, current_processes, progress, eta>>
    /\ UNCHANGED <<static, paused, sem, files, ui, submits, proc>>

\* thread.join(), then the next main asset.  An exception that ended the
\* job thread stays in that thread.
drv_join(d) ==
    /\ drv[d].pc = "join"
    /\ job[<<d, drv[d].idx>>].pc = "done"
    /\ drv' = [drv EXCEPT ![d].idx = @ + 1, ![d].pc = "loop"]
    /\ job' = [job EXCEPT ![<<d, drv[d].idx>>] = [NoJob EXCEPT !.pc = "done"]]
    /\ UNCHANGED <<static, processing, paused, current_processes, sem,
                   progress, eta, files, ui, submits, proc>>

(***************************************************************************)
(* process_video (one thread per dispatched pair)                          *)
(***************************************************************************)
\* a faulty end of the thread: the key is left in the map
job_end_keep(j, outcome, why, rc, out_bound, key_bound, f) ==
    /\ job' = [job EXCEPT ![j].pc = "done", ![j].outcome = outcome, ![j].why = why,
                          ![j].rc = rc]
    /\ files' = IF outcome = "failed" /\ out_bound
                THEN remove_output(f, out_of(j)) ELSE f
    /\ current_processes' = current_processes
    /\ proc' = [proc EXCEPT ![j] = NoProc]

\* the thread ends: the except handler of a failed job removes the output
\* file when output_path is assigned, the outer finally releases the key
\* when process_key is assigned and raises UnboundLocalError when it is
\* not (the local name is read at line 888); the with block has released
\* the slot
job_end(j, outcome, why, rc, out_bound, key_bound, f) ==
    /\ job' = [job EXCEPT ![j].pc = "done", ![j].outcome = outcome,
                          ![j].why = why, ![j].rc = rc,
                          ![j].cleanup = IF ~key_bound THEN "UnboundLocalError"
                                         ELSE IF why = "KeyError" THEN "KeyError"
                                         ELSE "ok"]
    /\ files' = IF outcome = "failed" /\ out_bound
                THEN remove_output(f, out_of(j)) ELSE f
    /\ current_processes' = IF key_bound
                            THEN release_key(current_processes, process_key(j))
                            ELSE current_processes
    /\ proc' = [proc EXCEPT ![j] = NoProc]

\* a faulty job: it goes on without taking a slot of the semaphore
job_acquire_noslot(j) ==
    /\ job[j].pc = "acquire"
    /\ IF ~processing
       THEN /\ job_end(j, "cancelled", "none", job[j].rc, FALSE, FALSE, files)
            /\ UNCHANGED <<sem, progress, eta>>
       ELSE /\ sem' = sem
            /\ progress' = percentage(job[j].pcount, drv[j[1]].total_videos)
            /\ eta' = IF job[j].pcount > 0 THEN "known" ELSE eta
            /\ job' = [job EXCEPT ![j].pc = "prep"]
            /\ UNCHANGED <<files, current_processes, proc>>
    /\ UNCHANGED <<static, processing, paused, ui, submits, drv>>

\* with self.processing_semaphore: if not self.processing: return
\* otherwise the progress widgets are written with the processed_count the
\* thread was started with
job_acquire(j) ==
    /\ job[j].pc = "acquire"
    /\ sem > 0
    /\ IF ~processing
       THEN /\ job_end(j, "cancelled", "none", job[j].rc, FALSE, FALSE, files)
            /\ UNCHANGED <<sem, progress, eta>>
       ELSE /\ sem' = sem - 1
            /\ progress' = percentage(job[j].pcount, drv[j[1]].total_videos)
            /\ eta' = IF job[j].pcount > 0 THEN "known" ELSE eta
            /\ job' = [job EXCEPT ![j].pc = "prep"]
            /\ UNCHANGED <<files, current_processes, proc>>
    /\ UNCHANGED <<static, processing, paused, ui, submits, drv>>

\* a faulty job: a failure of the setup keeps the slot
job_prep_leak(j) ==
    /\ job[j].pc = "prep"
    /\ \/ /\ job_end(j, "failed", "setup", job[j].rc, TRUE, FALSE, files)
          /\ sem' = sem
       \/ /\ job' = [job EXCEPT ![j].pc = "monitor"]
          /\ proc' = [proc EXCEPT ![j] = [NoProc EXCEPT !.st = "running"]]
          /\ current_processes' = map_put(current_processes, process_key(j), j)
          /\ UNCHANGED <<sem, files>>
    /\ UNCHANGED <<static, processing, paused, progress, eta, ui, submits, drv>>

\* output directory, output path, dimensions, encoder selection, command,
\* Popen, registration under process_key.
\*   - os.makedirs raises before output_path is assigned (only when the
\*     output directory does not exist yet, so it holds no file);
\*   - get_video_dimensions returns (None, None), or Popen raises, after
\*     output_path is assigned;
\*   - otherwise the encoder runs and is registered.
job_prep(j) ==
    /\ job[j].pc = "prep"
    /\ \/ /\ \A p \in OutputPaths : p[1] = dirname(main_of(j)) => files[p] = "absent"
          /\ job_end(j, "failed", "setup", job[j].rc, FALSE, FALSE, files)
          /\ sem' = sem + 1
       \/ /\ job_end(j, "failed", "setup", job[j].rc, TRUE, FALSE, files)
          /\ sem' = sem + 1
       \/ /\ job' = [job EXCEPT ![j].pc = "monitor"]
          /\ proc' = [proc EXCEPT ![j] = [NoProc EXCEPT !.st = "running"]]
          /\ current_processes' = map_put(current_processes, process_key(j), j)
          /\ UNCHANGED <<sem, files>>
    /\ UNCHANGED <<static, processing, paused, progress, eta, ui, submits, drv>>

\* what a process that exits by itself reports and leaves at its output path
ExitResults == {[rc |-> 0, file |-> "data"], [rc |-> 0, file |-> "empty"],
                [rc |-> 0, file |-> "absent"], [rc |-> 1, file |-> "data"]}

\* process.terminate(); process.wait(timeout=5); process.kill() on timeout.
\* The exit status is the encoder's (0 when it finishes by itself or exits
\* cleanly on the signal, non-zero otherwise; a kill is non-zero); what it
\* had written so far stays at the output path.
TermResults == {[rc |-> 0, file |-> "data"], [rc |-> 1, file |-> "data"]}

\* the inner finally block once process.wait() has returned, with the
\* process ended as st, file at the output path and why the exception on its
\* way ("none": none), rc what line 836 read.  "if process_key in self.current_processes" (853)
\* is one step and "del self.current_processes[process_key]" (854) the
\* next; without the key the block is left at once: an exception goes on to
\* the except handler and the outer finally, no exception to the sleep
job_inner_finally(j, st, file, why, rc) ==
    IF process_key(j) \in DOMAIN current_processes
    THEN /\ job' = [job EXCEPT ![j].pc = "del", ![j].why = why, ![j].rc = rc]
         /\ proc' = [proc EXCEPT ![j] = [NoProc EXCEPT !.st = st]]
         /\ files' = [files EXCEPT ![out_of(j)] = file]
         /\ UNCHANGED <<current_processes, sem>>
    ELSE IF why # "none"
    THEN /\ job_end(j, "failed", why, rc, TRUE, TRUE,
                    [files EXCEPT ![out_of(j)] = file])
         /\ sem' = sem + 1
    ELSE /\ job' = [job EXCEPT ![j].pc = "verify", ![j].rc = rc]
         /\ proc' = [proc EXCEPT ![j] = [NoProc EXCEPT !.st = st]]
         /\ files' = [files EXCEPT ![out_of(j)] = file]
         /\ UNCHANGED <<current_processes, sem>>

\* del self.current_processes[process_key] (854): KeyError when the map was
\* cleared since the test; the KeyError takes the place of the exception on
\* its way
job_del(j) ==
    /\ job[j].pc = "del"
    /\ IF process_key(j) \notin DOMAIN current_processes
       THEN /\ job_end(j, "failed", "KeyError", job[j].rc, TRUE, TRUE, files)
            /\ sem' = sem + 1
       ELSE IF job[j].why # "none"
       THEN /\ job_end(j, "failed", job[j].why, job[j].rc, TRUE, TRUE, files)
            /\ sem' = sem + 1
       ELSE /\ job' = [job EXCEPT ![j].pc = "verify"]
            /\ current_processes' = map_del(current_processes, process_key(j))
            /\ UNCHANGED <<proc, files, sem>>
    /\ UNCHANGED <<static, processing, paused, progress, eta, ui, submits, drv>>

\* a faulty check of the result: the return code is not looked at
job_after_loop_any_rc(j, st, r) ==
    job_inner_finally(j, st, r.file, "none", <<r.rc>>)

\* the loop is left with the process ended as st, reporting r: a non-zero
\* return code raises (836-842) into the inner finally, a zero one goes
\* through the inner finally to the one-second sleep
job_after_loop(j, st, r) ==
    job_inner_finally(j, st, r.file, IF r.rc # 0 THEN "exit" ELSE "none", <<r.rc>>)

\* one tick of "while process.poll() is None:"
job_monitor(j) ==
    /\ job[j].pc = "monitor"
    /\ IF proc[j].st = "exited"
       THEN \E r \in ExitResults : job_after_loop(j, "exited", r)
       ELSE IF proc[j].st = "terminated" \/ ~processing
       THEN \E r \in TermResults : job_after_loop(j, "terminated", r)
       ELSE IF paused
       THEN UNCHANGED <<job, proc, files, current_processes, sem>>
       ELSE /\ job' = [job EXCEPT ![j].pc = "readline"]
            /\ UNCHANGED <<proc, files, current_processes, sem>>
    /\ UNCHANGED <<static, processing, paused, progress, eta, ui, submits, drv>>

\* stderr_line = process.stderr.readline() returns a line the running
\* encoder has written
job_readline_line(j) ==
    /\ job[j].pc = "readline"
    /\ proc[j].st = "running"
    /\ job' = [job EXCEPT ![j].pc = "monitor"]
    /\ UNCHANGED <<static, processing, paused, current_processes, sem,
                   progress, eta, files, ui, submits, drv, proc>>

\* ... or raises (universal_newlines decodes what the encoder wrote, and
\* the bytes of a line need not be valid in the locale's encoding); the
\* inner finally closes the pipes and calls process.wait()
job_readline_raise(j) ==
    /\ job[j].pc = "readline"
    /\ proc[j].st = "running"
    /\ job' = [job EXCEPT ![j].pc = "wait", ![j].why = "read"]
    /\ UNCHANGED <<static, processing, paused, current_processes, sem,
                   progress, eta, files, ui, submits, drv, proc>>

\* process.wait() (850) returns when the encoder has ended
job_wait(j) ==
    /\ job[j].pc = "wait"
    /\ proc[j].st \in {"exited", "terminated"}
    /\ \E r \in IF proc[j].st = "exited" THEN ExitResults ELSE TermResults :
          job_inner_finally(j, proc[j].st, r.file, "read", <<>>)
    /\ UNCHANGED <<static, processing, paused, progress, eta, ui, submits, drv>>

\* ... or the empty string once the encoder has ended and the pipe is empty
job_readline_eof(j) ==
    /\ job[j].pc = "readline"
    /\ proc[j].st \in {"exited", "terminated"}
    /\ pipe[j] = 0
    /\ job' = [job EXCEPT ![j].pc = "monitor"]
    /\ UNCHANGED <<static, processing, paused, current_processes, sem,
                   progress, eta, files, ui, submits, drv, proc>>

\* a faulty verification: only the existence of the output is tested
job_verify_exists(j) ==
    /\ job[j].pc = "verify"
    /\ sem' = sem + 1
    /\ IF files[out_of(j)] = "absent"
       THEN job_end(j, "failed", "output", job[j].rc, TRUE, TRUE, files)
       ELSE job_end(j, "completed", "none", job[j].rc, TRUE, TRUE, files)
    /\ UNCHANGED <<static, processing, paused, progress, eta, ui, submits, drv>>

\* after time.sleep(1.0): a missing output raises, an empty one is removed
\* and raises, anything else is logged as completed
job_verify(j) ==
    /\ job[j].pc = "verify"
    /\ sem' = sem + 1
    /\ IF files[out_of(j)] = "absent" \/ files[out_of(j)] = "empty"
       THEN job_end(j, "failed", "output", job[j].rc, TRUE, TRUE, files)
       ELSE job_end(j, "completed", "none", job[j].rc, TRUE, TRUE, files)
    /\ UNCHANGED <<static, processing, paused, progress, eta, ui, submits, drv>>

(***************************************************************************)
(* The encoder process.                                                    *)
(***************************************************************************)
\* the encoder ends by itself
proc_exit(j) ==
    /\ proc[j].st = "running"
    /\ proc' = [proc EXCEPT ![j] = [NoProc EXCEPT !.st = "exited"]]
    /\ UNCHANGED <<static, processing, paused, current_processes, sem,
                   progress, eta, files, ui, submits, drv, job>>

(***************************************************************************)
(* stop_processing and toggle_pause (UI thread)                            *)
(***************************************************************************)
\* self.processing = False, then terminate every process of
\* list(self.current_processes.items()) that is still running
stop_processing_terminate ==
    /\ ui_idle
    /\ processing
    /\ processing' = FALSE
    /\ LET targets == {j \in JobIds :
                          /\ \E k \in DOMAIN current_processes : current_processes[k] = j
                          /\ proc[j].st = "running"}
       IN  proc' = [j \in JobIds |->
                       IF j \in targets THEN [NoProc EXCEPT !.st = "terminated"]
                       ELSE IF proc[j].st = "running"
                       THEN [proc[j] EXCEPT !.stop_req = TRUE]
                       ELSE proc[j]]
    /\ ui' = "stop_clear"
    /\ UNCHANGED <<static, paused, current_processes, sem, progress, eta,
                   files, submits, drv, job>>

\* self.current_processes.clear(), the widgets, self.paused = False
stop_processing_clear ==
    /\ ui = "stop_clear"
    /\ current_processes' = EmptyMap
    /\ progress' = 0
    /\ eta' = "unknown"
    /\ paused' = FALSE
    /\ ui' = "stopped"
    /\ UNCHANGED <<static, processing, sem, files, submits, drv, job, proc>>

toggle_pause ==
    /\ ui_idle
    /\ processing
    /\ paused' = ~paused
    /\ UNCHANGED <<static, processing, current_processes, sem, progress, eta,
                   files, ui, submits, drv, job, proc>>

(***************************************************************************)
(* The batch specification.                                                *)
(***************************************************************************)
Next ==
    \/ start_processing
    \/ stop_processing_terminate
    \/ stop_processing_clear
    \/ toggle_pause
    \/ \E d \in Drivers : drv_loop(d)
    \/ \E d \in Drivers : drv_update(d)
    \/ \E d \in Drivers : drv_join(d)
    \/ \E j \in JobIds : job_acquire(j)
    \/ \E j \in JobIds : job_prep(j)
    \/ \E j \in JobIds : job_monitor(j)
    \/ \E j \in JobIds : job_readline_line(j)
    \/ \E j \in JobIds : job_readline_raise(j)
    \/ \E j \in JobIds : job_readline_eof(j)
    \/ \E j \in JobIds : job_wait(j)
    \/ \E j \in JobIds : job_del(j)
    \/ \E j \in JobIds : job_verify(j)
    \/ \E j \in JobIds : proc_exit(j)

Spec == Init /\ [][Next]_vars

TypeOK ==
    /\ processing \in BOOLEAN
    /\ paused \in BOOLEAN
    /\ sem \in 0..max_concurrent_processes
    /\ progress \in 0..100
    /\ DOMAIN current_processes \subseteq MainPaths \X OverlayPaths

(***************************************************************************)
(* The pairing specification: the files on disk are drawn from all        *)
(* durations up to MaxDuration (0: the probe fails), and the driver's     *)
(* pairing step is applied to each main asset in turn.  The main assets    *)
(* are short enough for overlays on both sides of the window to exist.    *)
(***************************************************************************)
InitPair ==
    /\ main_video_paths = <<A_path, B_path>>
    /\ overlay_video_paths = <<X_path, Y_path>>
    /\ disk \in [Paths -> {Media(TRUE, d) : d \in 0..MaxDuration}]
    /\ \A m \in MainPaths : 3 * disk[m].duration < MaxDuration
    /\ main_video_durations = added_index(main_video_paths)
    /\ overlay_video_durations = added_index(overlay_video_paths)
    /\ gpu = NoGpu
    /\ filename = <<>>
    /\ InitApp

\* lines 901-911 of the driver for the next main asset: skipped, or paired
\* with one of the suitable overlays
pair_select ==
    /\ Len(selection) < Len(main_video_paths)
    /\ LET main_video_path == main_video_paths[Len(selection) + 1]
       IN  IF pairing(main_video_path) = {}
           THEN selection' = Append(selection, <<>>)
           ELSE \E overlay_video_path \in pairing(main_video_path) :
                   selection' = Append(selection, overlay_video_path)
    /\ UNCHANGED <<main_video_paths, overlay_video_paths, disk, processing,
                   paused, current_processes, sem, progress, eta, files, ui,
                   submits, drv, job, proc, main_video_durations,
                   overlay_video_durations, renames, gpu, filename, pipe>>

NextPair == pair_select

SpecPair == InitPair /\ [][NextPair]_vars

(***************************************************************************)
(* The collection specification: the two collections start empty, and the *)
(* operator adds files, removes and renames selected entries, and presses *)
(* start.  Three files exist: a (2 s) and b (4 s) in dirA, and y in dirB,  *)
(* which cannot be probed.                                                 *)
(***************************************************************************)
\* os.path.join(target_dir, f"{prefix}_{i+1:03d}{ext}") (counter 0) and
\* f"{base_name}_{counter:03d}{ext}"
renamed_path(target_dir, prefix, i, counter) == <<target_dir, prefix, i, counter>>

CollFiles == {A_path, B_path, Y_path}

CollPaths ==
    CollFiles \cup
    {renamed_path(dirname(f), prefix, i, counter) :
        f \in CollFiles, prefix \in {"Main", "video_overlay"},
        i \in 1..MaxList, counter \in 0..Cardinality(CollFiles)}

InitColl ==
    /\ main_video_paths = <<>>
    /\ overlay_video_paths = <<>>
    /\ disk = [p \in CollPaths |->
                 CASE p = A_path -> Media(TRUE, 2)
                   [] p = B_path -> Media(TRUE, 4)
                   [] p = Y_path -> Media(TRUE, 0)
                   [] OTHER -> Media(FALSE, 0)]
    /\ main_video_durations = EmptyMap
    /\ overlay_video_durations = EmptyMap
    /\ gpu = NoGpu
    /\ filename = <<>>
    /\ InitApp

session == <<processing, paused, current_processes, sem, progress, eta, files,
             ui, submits, drv, job, proc, selection>>

others == <<session, renames, gpu, filename, pipe>>

\* add_video: a file that cannot be probed is refused, a path already in
\* the collection is not added again
add_video(video_path, target) ==
    /\ ui_idle
    /\ disk[video_path].exists
    /\ LET duration == get_video_duration(video_path) IN
       IF duration = 0
       THEN UNCHANGED <<main_video_paths, main_video_durations,
                        overlay_video_paths, overlay_video_durations>>
       ELSE IF target = "main"
       THEN /\ Len(main_video_paths) < MaxList
            /\ IF video_path \notin Range(main_video_paths)
               THEN /\ main_video_paths' = Append(main_video_paths, video_path)
                    /\ main_video_durations' =
                          map_put(main_video_durations, video_path, duration)
               ELSE UNCHANGED <<main_video_paths, main_video_durations>>
            /\ UNCHANGED <<overlay_video_paths, overlay_video_durations>>
       ELSE /\ Len(overlay_video_paths) < MaxList
            /\ IF video_path \notin Range(overlay_video_paths)
               THEN /\ overlay_video_paths' = Append(overlay_video_paths, video_path)
                    /\ overlay_video_durations' =
                          map_put(overlay_video_durations, video_path, duration)
               ELSE UNCHANGED <<overlay_video_paths, overlay_video_durations>>
            /\ UNCHANGED <<main_video_paths, main_video_durations>>
    /\ UNCHANGED <<disk, others>>

\* the entries of a list that are not selected, in order
RECURSIVE pop_selected(_, _, _)
pop_selected(paths, selected, i) ==
    IF i > Len(paths) THEN <<>>
    ELSE IF i \in selected THEN pop_selected(paths, selected, i + 1)
    ELSE <<paths[i]>> \o pop_selected(paths, selected, i + 1)

\* remove_selected_video: the entries are popped, the duration index is
\* left as it is
remove_selected_video(selected) ==
    /\ ui_idle
    /\ selected # {}
    /\ selected \subseteq DOMAIN main_video_paths
    /\ main_video_paths' = pop_selected(main_video_paths, selected, 1)
    /\ UNCHANGED <<main_video_durations, overlay_video_paths,
                   overlay_video_durations, disk, others>>

\* remove_selected_overlay: the entries and their index entries are deleted
remove_selected_overlay(selected) ==
    /\ ui_idle
    /\ selected # {}
    /\ selected \subseteq DOMAIN overlay_video_paths
    /\ overlay_video_paths' = pop_selected(overlay_video_paths, selected, 1)
    /\ overlay_video_durations' =
          [q \in (DOMAIN overlay_video_durations)
                    \ {overlay_video_paths[i] : i \in selected}
              |-> overlay_video_durations[q]]
    /\ UNCHANGED <<main_video_paths, main_video_durations, disk, others>>

\* listbox.curselection(): the selected positions in ascending order
RECURSIVE curselection(_)
curselection(selected) ==
    IF selected = {} THEN <<>>
    ELSE LET first == CHOOSE i \in selected : \A k \in selected : i <= k
         IN  <<first>> \o curselection(selected \ {first})

\* while os.path.exists(new_path): new_path = f"{base_name}_{counter:03d}{ext}"
RECURSIVE fresh_path(_, _, _, _, _)
fresh_path(d, target_dir, prefix, i, counter) ==
    LET new_path == renamed_path(target_dir, prefix, i, counter)
    IN  IF d[new_path].exists
        THEN fresh_path(d, target_dir, prefix, i, counter + 1)
        ELSE new_path

shutil_move(d, old_path, new_path) ==
    [d EXCEPT ![new_path] = d[old_path], ![old_path] = Media(FALSE, 0)]

\* the first loop of rename_selected_files: the selected files are moved one
\* after the other; a move of a file that is not there raises and leaves
\* the earlier moves done
RECURSIVE move_selected(_, _, _, _, _, _, _)
move_selected(d, renamed_paths, paths, selected, k, target_dir, prefix) ==
    IF k > Len(selected)
    THEN [disk |-> d, renamed_paths |-> renamed_paths, raised |-> FALSE]
    ELSE LET old_path == paths[selected[k]]
             new_path == fresh_path(d, target_dir, prefix, k, 0)
         IN  IF ~d[old_path].exists
             THEN [disk |-> d, renamed_paths |-> renamed_paths, raised |-> TRUE]
             ELSE move_selected(shutil_move(d, old_path, new_path),
                                map_put(renamed_paths, old_path, new_path),
                                paths, selected, k + 1, target_dir, prefix)

\* the second loop: every entry whose path was renamed is replaced and its
\* index entry re-keyed; a path without index entry raises KeyError after
\* the entry was replaced
RECURSIVE rekey(_, _, _, _)
rekey(paths, durations, renamed_paths, i) ==
    IF i > Len(paths) THEN [paths |-> paths, durations |-> durations]
    ELSE IF paths[i] \notin DOMAIN renamed_paths
    THEN rekey(paths, durations, renamed_paths, i + 1)
    ELSE LET path == paths[i]
             new_path == renamed_paths[path]
             replaced == [paths EXCEPT ![i] = new_path]
         IN  IF path \notin DOMAIN durations
             THEN [paths |-> replaced, durations |-> durations]
             ELSE rekey(replaced,
                        map_del(map_put(durations, new_path, durations[path]), path),
                        renamed_paths, i + 1)

rename_selected_files(target, selected) ==
    LET paths == IF target = "main" THEN main_video_paths ELSE overlay_video_paths
        durations == IF target = "main" THEN main_video_durations
                     ELSE overlay_video_durations
        prefix == IF target = "main" THEN "Main" ELSE "video_overlay"
    IN  /\ ui_idle
        /\ selected # {}
        /\ selected \subseteq DOMAIN paths
        /\ renames < MaxRenames
        /\ renames' = renames + 1
        /\ LET first_file == paths[curselection(selected)[1]]
               moved == move_selected(disk, EmptyMap, paths, curselection(selected),
                                      1, dirname(first_file), prefix)
               rekeyed == rekey(paths, durations, moved.renamed_paths, 1)
           IN  /\ disk' = moved.disk
               /\ IF moved.raised
                  THEN UNCHANGED <<main_video_paths, main_video_durations,
                                   overlay_video_paths, overlay_video_durations>>
                  ELSE IF target = "main"
                  THEN /\ main_video_paths' = rekeyed.paths
                       /\ main_video_durations' = rekeyed.durations
                       /\ UNCHANGED <<overlay_video_paths, overlay_video_durations>>
                  ELSE /\ overlay_video_paths' = rekeyed.paths
                       /\ overlay_video_durations' = rekeyed.durations
                       /\ UNCHANGED <<main_video_paths, main_video_durations>>
        /\ UNCHANGED <<session, gpu, filename, pipe>>

NextColl ==
    \/ start_processing
    \/ \E video_path \in CollPaths, target \in {"main", "overlay"} :
          add_video(video_path, target)
    \/ \E selected \in SUBSET (1..MaxList) : remove_selected_video(selected)
    \/ \E selected \in SUBSET (1..MaxList) : remove_selected_overlay(selected)
    \/ \E target \in {"main", "overlay"}, selected \in SUBSET (1..MaxList) :
          rename_selected_files(target, selected)

SpecColl == InitColl /\ [][NextColl]_vars

\* the same without renames: the collections are filled and emptied, and
\* start is pressed
NextSubmit ==
    \/ start_processing
    \/ \E video_path \in CollPaths, target \in {"main", "overlay"} :
          add_video(video_path, target)
    \/ \E selected \in SUBSET (1..MaxList) : remove_selected_video(selected)
    \/ \E selected \in SUBSET (1..MaxList) : remove_selected_overlay(selected)

SpecSubmit == InitColl /\ [][NextSubmit]_vars

(***************************************************************************)
(* The batch specification with the callbacks that return at once: the    *)
(* operator also calls stop_processing and toggle_pause while processing  *)
(* is clear.                                                               *)
(***************************************************************************)
\* stop_processing: if not self.processing: return
stop_processing_idle ==
    /\ ui_idle
    /\ ~processing
    /\ ui' = "ignored"
    /\ UNCHANGED <<static, processing, paused, current_processes, sem,
                   progress, eta, files, submits, drv, job, proc>>

\* a faulty toggle: the flag is flipped whatever processing is
toggle_pause_idle_flip ==
    /\ ui_idle
    /\ ~processing
    /\ ui' = "ignored"
    /\ paused' = ~paused
    /\ UNCHANGED <<static, processing, current_processes, sem, progress, eta,
                   files, submits, drv, job, proc>>

\* toggle_pause: if not self.processing: return
toggle_pause_idle ==
    /\ ui_idle
    /\ ~processing
    /\ ui' = "ignored"
    /\ UNCHANGED <<static, processing, paused, current_processes, sem,
                   progress, eta, files, submits, drv, job, proc>>

NextIdle ==
    \/ Next
    \/ stop_processing_idle
    \/ toggle_pause_idle

SpecIdle == Init /\ [][NextIdle]_vars

(***************************************************************************)
(* The editing specification: one batch on one main asset and one overlay, *)
(* while the operator adds further files to the collections (the buttons  *)
(* of the collections stay enabled while a batch runs).  The for loop of  *)
(* the driver walks the list itself, so an appended main asset is          *)
(* dispatched too.                                                         *)
(***************************************************************************)
InitEdit ==
    /\ main_video_paths = <<A_path>>
    /\ overlay_video_paths = <<X_path>>
    /\ disk \in BatchDisks
    /\ main_video_durations = added_index(main_video_paths)
    /\ overlay_video_durations = added_index(overlay_video_paths)
    /\ gpu = NoGpu
    /\ filename = <<>>
    /\ InitApp

NextEdit ==
    \/ submits = 0 /\ start_processing
    \/ stop_processing_terminate
    \/ stop_processing_clear
    \/ toggle_pause
    \/ \E d \in Drivers : drv_loop(d)
    \/ \E d \in Drivers : drv_update(d)
    \/ \E d \in Drivers : drv_join(d)
    \/ \E j \in JobIds : job_acquire(j)
    \/ \E j \in JobIds : job_prep(j)
    \/ \E j \in JobIds : job_monitor(j)
    \/ \E j \in JobIds : job_readline_line(j)
    \/ \E j \in JobIds : job_readline_raise(j)
    \/ \E j \in JobIds : job_readline_eof(j)
    \/ \E j \in JobIds : job_wait(j)
    \/ \E j \in JobIds : job_del(j)
    \/ \E j \in JobIds : job_verify(j)
    \/ \E j \in JobIds : proc_exit(j)
    \/ \E video_path \in MainPaths : add_video(video_path, "main")
    \/ \E video_path \in OverlayPaths : add_video(video_path, "overlay")

SpecEdit == InitEdit /\ [][NextEdit]_vars

(***************************************************************************)
(* The same-name specification: one batch over two main assets of one     *)
(* directory whose file names differ in the extension only, a.mp4 and     *)
(* a.avi (the file dialog offers both types), and one overlay.            *)
(***************************************************************************)
InitStem ==
    /\ main_video_paths = <<A_path, A_avi_path>>
    /\ overlay_video_paths = <<X_path>>
    /\ disk = [p \in Paths \cup {A_avi_path} |->
                  IF p \in {A_path, A_avi_path} THEN Media(TRUE, 2)
                  ELSE IF p = Y_path THEN Media(TRUE, 1) ELSE Media(TRUE, 4)]
    /\ main_video_durations = added_index(main_video_paths)
    /\ overlay_video_durations = added_index(overlay_video_paths)
    /\ gpu = NoGpu
    /\ filename = <<>>
    /\ InitApp

NextStem ==
    \/ submits = 0 /\ start_processing
    \/ stop_processing_terminate
    \/ stop_processing_clear
    \/ toggle_pause
    \/ \E d \in Drivers : drv_loop(d)
    \/ \E d \in Drivers : drv_update(d)
    \/ \E d \in Drivers : drv_join(d)
    \/ \E j \in JobIds : job_acquire(j)
    \/ \E j \in JobIds : job_prep(j)
    \/ \E j \in JobIds : job_monitor(j)
    \/ \E j \in JobIds : job_readline_line(j)
    \/ \E j \in JobIds : job_readline_raise(j)
    \/ \E j \in JobIds : job_readline_eof(j)
    \/ \E j \in JobIds : job_wait(j)
    \/ \E j \in JobIds : job_del(j)
    \/ \E j \in JobIds : job_verify(j)
    \/ \E j \in JobIds : proc_exit(j)

SpecStem == InitStem /\ [][NextStem]_vars

(***************************************************************************)
(* The negotiation specification: the use_gpu setting and the answers of  *)
(* ffmpeg are drawn from all cases, and the job's encoder selection is    *)
(* applied to them.                                                        *)
(***************************************************************************)
ProbeOutcomes == {"pass", "fail", "raise"}

InitGpu ==
    /\ main_video_paths = <<A_path, B_path>>
    /\ overlay_video_paths = <<X_path, Y_path>>
    /\ disk \in BatchDisks
    /\ main_video_durations = added_index(main_video_paths)
    /\ overlay_video_durations = added_index(overlay_video_paths)
    /\ gpu \in [use_gpu : BOOLEAN, listing : {"ok", "raise"},
                encoders : SUBSET Range(Families),
                test : [Range(Families) -> ProbeOutcomes],
                video_encoder : {"none"}, probes : {0}]
    /\ filename = <<>>
    /\ InitApp

\* a check_gpu_support without its try/except: an exception of a probe
\* reaches the job
check_gpu_support_unguarded ==
    IF gpu.listing = "raise" THEN [gpu_type |-> "raised", probes |-> 1]
    ELSE IF "h264_nvenc" \in gpu.encoders /\ gpu.test["h264_nvenc"] = "pass"
    THEN [gpu_type |-> "NVIDIA", probes |-> 2]
    ELSE IF "h264_nvenc" \in gpu.encoders /\ gpu.test["h264_nvenc"] = "raise"
    THEN [gpu_type |-> "raised", probes |-> 2]
    ELSE LET probes == IF "h264_nvenc" \in gpu.encoders THEN 2 ELSE 1
         IN  IF "h264_amf" \notin gpu.encoders
             THEN [gpu_type |-> "None", probes |-> probes]
             ELSE IF gpu.test["h264_amf"] = "pass"
             THEN [gpu_type |-> "AMD", probes |-> probes + 1]
             ELSE IF gpu.test["h264_amf"] = "raise"
             THEN [gpu_type |-> "raised", probes |-> probes + 1]
             ELSE [gpu_type |-> "None", probes |-> probes + 1]

\* check_gpu_support: the encoder list, then the NVENC test encode if
\* h264_nvenc is listed, then the AMF test encode if NVENC did not pass and
\* h264_amf is listed; any exception anywhere returns None
check_gpu_support ==
    IF gpu.listing = "raise" THEN [gpu_type |-> "None", probes |-> 1]
    ELSE IF "h264_nvenc" \in gpu.encoders /\ gpu.test["h264_nvenc"] = "pass"
    THEN [gpu_type |-> "NVIDIA", probes |-> 2]
    ELSE IF "h264_nvenc" \in gpu.encoders /\ gpu.test["h264_nvenc"] = "raise"
    THEN [gpu_type |-> "None", probes |-> 2]
    ELSE LET probes == IF "h264_nvenc" \in gpu.encoders THEN 2 ELSE 1
         IN  IF "h264_amf" \notin gpu.encoders
             THEN [gpu_type |-> "None", probes |-> probes]
             ELSE IF gpu.test["h264_amf"] = "pass"
             THEN [gpu_type |-> "AMD", probes |-> probes + 1]
             ELSE [gpu_type |-> "None", probes |-> probes + 1]

\* the encoder of the command for a gpu_type
encoder_for(gpu_type) ==
    CASE gpu_type = "NVIDIA" -> "h264_nvenc"
      [] gpu_type = "AMD" -> "h264_amf"
      [] gpu_type = "raised" -> "raised"
      [] OTHER -> "libx264"

\* process_video, lines 703-756: gpu_type = None; if self.use_gpu.get():
\* gpu_type = self.check_gpu_support(); then the encoder by gpu_type
select_encoder ==
    /\ gpu.video_encoder = "none"
    /\ LET checked == IF gpu.use_gpu THEN check_gpu_support
                      ELSE [gpu_type |-> "None", probes |-> 0]
       IN  gpu' = [gpu EXCEPT !.video_encoder = encoder_for(checked.gpu_type),
                              !.probes = checked.probes]
    /\ UNCHANGED <<main_video_paths, overlay_video_paths, disk,
                   main_video_durations, overlay_video_durations, session,
                   renames, filename, pipe>>

NextGpu == select_encoder

SpecGpu == InitGpu /\ [][NextGpu]_vars

(***************************************************************************)
(* The naming specification: sanitize_filename applied twice to every     *)
(* file name of up to MaxNameLen characters over a letter, the dot and an *)
(* illegal character.  A name is the sequence of its characters.          *)
(***************************************************************************)
\* "<" stands for the characters of the class [<>:"/\\|?*]
Illegal == {"<"}
Alphabet == {"a", "."} \cup Illegal

\* re.sub(r'[<>:"/\\|?*]', '_', filename)
re_sub(name) == [i \in DOMAIN name |-> IF name[i] \in Illegal THEN "_" ELSE name[i]]

\* os.path.splitext on a name without separators: the extension starts at
\* the last dot, unless only dots stand before it
splitext(name) ==
    LET dots == {i \in DOMAIN name : name[i] = "."}
    IN  IF dots = {} THEN [base |-> name, ext |-> <<>>]
        ELSE LET dotIndex == CHOOSE i \in dots : \A k \in dots : k <= i
             IN  IF \E k \in 1..(dotIndex - 1) : name[k] # "."
                 THEN [base |-> SubSeq(name, 1, dotIndex - 1),
                       ext |-> SubSeq(name, dotIndex, Len(name))]
                 ELSE [base |-> name, ext |-> <<>>]

\* the slice s[:n] of Python, n of either sign
slice_to(s, n) ==
    IF n >= 0 THEN SubSeq(s, 1, IF n < Len(s) THEN n ELSE Len(s))
    ELSE SubSeq(s, 1, IF Len(s) + n > 0 THEN Len(s) + n ELSE 0)

sanitize_filename(name) ==
    LET replaced == re_sub(name)
        base == splitext(replaced).base
        ext == splitext(replaced).ext
    IN  IF Len(replaced) > NameLimit
        THEN slice_to(base, NameLimit - Len(ext)) \o ext
        ELSE replaced

RECURSIVE Names(_)
Names(n) ==
    IF n = 0 THEN {<<>>}
    ELSE Names(n - 1) \cup {Append(w, c) : w \in Names(n - 1), c \in Alphabet}

InitName ==
    /\ main_video_paths = <<A_path, B_path>>
    /\ overlay_video_paths = <<X_path, Y_path>>
    /\ disk \in BatchDisks
    /\ main_video_durations = added_index(main_video_paths)
    /\ overlay_video_durations = added_index(overlay_video_paths)
    /\ gpu = NoGpu
    /\ filename \in {<<name>> : name \in Names(MaxNameLen)}
    /\ InitApp

\* the last name is sanitized (once more)
sanitize_again ==
    /\ Len(filename) < 3
    /\ filename' = Append(filename, sanitize_filename(filename[Len(filename)]))
    /\ UNCHANGED <<main_video_paths, overlay_video_paths, disk,
                   main_video_durations, overlay_video_durations, session,
                   renames, gpu, pipe>>

NextName == sanitize_again

SpecName == InitName /\ [][NextName]_vars

(***************************************************************************)
(* The pipe specification: one batch, with the stderr pipe of the encoder *)
(* between the encoder, which writes lines into it, and the monitor loop, *)
(* whose readline takes them out.  A write into a full pipe does not      *)
(* return until a line is read.  Every read returns what it read.         *)
(***************************************************************************)
start_once == submits = 0 /\ start_processing

\* the encoder writes a line of output into its stderr pipe
pipe_write(j) ==
    /\ proc[j].st = "running"
    /\ pipe[j] < PipeCap
    /\ pipe' = [pipe EXCEPT ![j] = @ + 1]
    /\ UNCHANGED <<main_video_paths, overlay_video_paths, disk,
                   main_video_durations, overlay_video_durations, session,
                   renames, gpu, filename>>

\* stderr_line = process.stderr.readline() returns a line of the pipe
pipe_readline(j) ==
    /\ job[j].pc = "readline"
    /\ pipe[j] > 0
    /\ pipe' = [pipe EXCEPT ![j] = @ - 1]
    /\ job' = [job EXCEPT ![j].pc = "monitor"]
    /\ UNCHANGED <<main_video_paths, overlay_video_paths, disk,
                   main_video_durations, overlay_video_durations, renames,
                   gpu, filename, processing, paused, current_processes, sem,
                   progress, eta, files, ui, submits, drv, proc, selection>>

NextPipe ==
    \/ start_once
    \/ stop_processing_terminate
    \/ stop_processing_clear
    \/ toggle_pause
    \/ \E d \in Drivers : drv_loop(d)
    \/ \E d \in Drivers : drv_update(d)
    \/ \E d \in Drivers : drv_join(d)
    \/ \E j \in JobIds : job_acquire(j)
    \/ \E j \in JobIds : job_prep(j)
    \/ \E j \in JobIds : job_monitor(j)
    \/ \E j \in JobIds : pipe_write(j)
    \/ \E j \in JobIds : pipe_readline(j)
    \/ \E j \in JobIds : job_readline_eof(j)
    \/ \E j \in JobIds : job_del(j)
    \/ \E j \in JobIds : job_verify(j)
    \/ \E j \in JobIds : proc_exit(j)

SpecPipe == Init /\ [][NextPipe]_vars

(***************************************************************************)
(* C1.  For a main asset whose probe succeeds with duration m (m > 0; 0 is *)
(* the probe's failure value), get_suitable_overlay_videos returns exactly *)
(* the overlays whose probed duration d satisfies m <= d <= 3*m, and every *)
(* overlay the driver pairs with that main asset is one of them.           *)
(***************************************************************************)
window(main_video_path) ==
    {o \in Range(overlay_video_paths) :
        /\ get_video_duration(main_video_path) <= get_video_duration(o)
        /\ get_video_duration(o) <= 3 * get_video_duration(main_video_path)}

job_ends(j) == job[j].pc \notin {"none", "done"} /\ job'[j].pc = "done"

C3_NoPartialOutput ==
    [][\A j \in JobIds :
          (job_ends(j) /\ (job'[j].outcome = "failed" \/ proc[j].st = "terminated"))
             => files'[out_of(j)] = "absent"]_vars

(***************************************************************************)
(* C4.  stop_processing leaves none of the processes of the map running,  *)
(* has emptied the map when it completes, and the map stays empty until   *)
(* the next start_processing.                                              *)
(***************************************************************************)
C4_StopEmptiesMap ==
    [][/\ (ui_idle /\ ui' = "stop_clear") =>
             \A k \in DOMAIN current_processes :
                proc'[current_processes[k]].st # "running"
       /\ ui' = "stopped" => current_processes' = EmptyMap]_vars

(***************************************************************************)
(* C5.  Within a batch the jobs are a strictly ordered sequence: a job    *)
(* for a main asset exists only when the jobs of all earlier main assets  *)
(* of that batch have ended (or were skipped), it is the job of the       *)
(* driver's current position, and at most one job thread of the batch is  *)
(* alive.                                                                  *)
(***************************************************************************)
job_alive(j) == job[j].pc \notin {"none", "done"}

C5_OrderedJobs ==
    \A d \in Drivers :
       /\ Cardinality({j \in JobIds : j[1] = d /\ job_alive(j)}) <= 1
       /\ \A j \in JobIds :
             (j[1] = d /\ job[j].pc # "none") =>
                /\ drv[d].pc \in {"loop", "update", "join"}
                /\ j[2] <= drv[d].idx
                /\ job_alive(j) =>
                      (j[2] = drv[d].idx /\ drv[d].pc \in {"update", "join"})
                /\ \A k \in JobIds : (k[1] = d /\ k[2] < j[2]) => ~job_alive(k)

\* the job of the second main asset runs after the job of the first ended
C5_Witness ==
    \E d \in Drivers : job[<<d, 1>>].pc = "done" /\ job_alive(<<d, 2>>)

(***************************************************************************)
(* C6.  At most one driver thread is running.                              *)
(***************************************************************************)
drv_alive(d) == drv[d].pc \in {"loop", "update", "join"}

C6_OneDriver == Cardinality({d \in Drivers : drv_alive(d)}) <= 1

(***************************************************************************)
(* C7.  The session phase derived from the flags starts at Idle and       *)
(* changes only along Idle->Running, Running<->Paused,                     *)
(* Running|Paused->Stopping, Stopping->Idle (the driver's own exit from   *)
(* the batch loop counted as passing through Stopping), and the session   *)
(* is never Idle with the paused flag set.                                 *)
(***************************************************************************)
phase ==
    IF ui = "stop_clear" THEN "Stopping"
    ELSE IF ~processing THEN "Idle"
    ELSE IF paused THEN "Paused" ELSE "Running"

PhaseEdges ==
    {<<"Idle", "Running">>, <<"Running", "Paused">>, <<"Paused", "Running">>,
     <<"Running", "Stopping">>, <<"Paused", "Stopping">>, <<"Stopping", "Idle">>,
     <<"Running", "Idle">>, <<"Paused", "Idle">>}

C7_PhaseMachine ==
    [][/\ phase' # phase => <<phase, phase'>> \in PhaseEdges
       /\ phase' = "Idle" => ~paused']_vars

drv_step(d) == drv_loop(d) \/ drv_update(d) \/ drv_join(d)

job_step(j) ==
    \/ job_acquire(j)
    \/ job_prep(j)
    \/ job_monitor(j)
    \/ job_readline_eof(j)
    \/ job_wait(j)
    \/ job_del(j)
    \/ job_verify(j)

FairSpec ==
    /\ Init
    /\ [][Next]_vars
    /\ WF_vars(stop_processing_clear)
    /\ \A d \in Drivers : WF_vars(drv_step(d))
    /\ \A j \in JobIds : WF_vars(job_step(j))

(***************************************************************************)
(* C9.  Every batch eventually completes, provided each encoder           *)
(* eventually exits or stop_processing is called: from any state in which *)
(* a driver is alive and no encoder is running that stop_processing was   *)
(* not called on, that driver eventually ends (or such an encoder is      *)
(* running again); and the step that ends a driver leaves processing      *)
(* false, the map empty, and progress and ETA reset.                       *)
(***************************************************************************)
\* an encoder is running and stop_processing has not been called since it
\* was spawned: the proviso of the claim is not yet met
encoder_pending == \E j \in JobIds : proc[j].st = "running" /\ ~proc[j].stop_req

C9_BatchCompletes ==
    /\ \A d \in Drivers :
          (drv_alive(d) /\ ~encoder_pending) ~> (drv[d].pc = "done" \/ encoder_pending)
    /\ [][\A d \in Drivers :
             (drv_alive(d) /\ drv'[d].pc = "done") =>
                /\ ~processing'
                /\ current_processes' = EmptyMap
                /\ progress' = 0
                /\ eta' = "unknown"]_vars

(***************************************************************************)
(* C10.  The failure of a job touches neither the stop flag nor the       *)
(* driver; the driver that joins a failed job goes on to the next main    *)
(* asset; and a driver leaves the batch loop only at the end of the list  *)
(* or with the stop flag down.                                             *)
(***************************************************************************)
C10_FailureIsLocal ==
    [][/\ \A j \in JobIds :
             (job_ends(j) /\ job'[j].outcome = "failed") =>
                (processing' = processing /\ drv' = drv)
       /\ \A d \in Drivers :
             (/\ drv[d].pc = "join"
              /\ job[<<d, drv[d].idx>>].outcome = "failed"
              /\ drv'[d] # drv[d])
                => (drv'[d].pc = "loop" /\ drv'[d].idx = drv[d].idx + 1)
       /\ \A d \in Drivers :
             (drv_alive(d) /\ drv'[d].pc = "done") =>
                (drv[d].pc = "loop"
                 /\ (drv[d].idx > Len(main_video_paths) \/ ~processing))]_vars

\* the job of the first main asset has failed while the batch is running
\* and a later main asset remains
C10_Witness ==
    \E d \in Drivers :
       /\ job[<<d, 1>>].pc = "done"
       /\ job[<<d, 1>>].outcome = "failed"
       /\ drv[d].pc = "join"
       /\ processing
       /\ drv[d].idx < Len(main_video_paths)

(***************************************************************************)
(* C11.  A main asset whose file no longer exists, or for which no        *)
(* overlay lies in the duration window, gets no job thread and no encoder *)
(* process, and the driver that meets it goes on to the next main asset   *)
(* with the batch still running.                                           *)
(***************************************************************************)
C11_SkipContinues ==
    [][/\ \A j \in JobIds :
             pairing(main_of(j)) = {} =>
                (job'[j].pc = "none" /\ proc'[j].st = "none")
       /\ \A d \in Drivers :
             (/\ drv[d].pc = "loop"
              /\ processing
              /\ drv[d].idx <= Len(main_video_paths)
              /\ pairing(main_video_paths[drv[d].idx]) = {}
              /\ drv'[d] # drv[d])
                => /\ drv'[d].pc = "loop"
                   /\ drv'[d].idx = drv[d].idx + 1
                   /\ processing'
                   /\ job' = job
                   /\ proc' = proc]_vars

\* the first main asset was skipped and the job of the second is running
C11_Witness ==
    \E d \in Drivers :
       /\ pairing(main_video_paths[1]) = {}
       /\ job[<<d, 1>>].pc = "none"
       /\ job_alive(<<d, 2>>)
       /\ proc[<<d, 2>>].st = "running"

(***************************************************************************)
(* C12.  start_processing with an empty main collection or an empty       *)
(* overlay collection starts no driver and leaves processing, paused and  *)
(* the active-process map as they were.                                    *)
(***************************************************************************)
C12_EmptySubmitRejected ==
    [][(main_video_paths = <<>> \/ overlay_video_paths = <<>>) =>
          /\ submits' = submits
          /\ drv' = drv
          /\ job' = job
          /\ processing' = processing
          /\ paused' = paused
          /\ current_processes' = current_processes]_vars

\* a start with main assets but no overlay was rejected
C12_Witness ==
    /\ ui = "rejected"
    /\ main_video_paths # <<>>
    /\ overlay_video_paths = <<>>
    /\ ~processing
    /\ submits = 0

(***************************************************************************)
(* C20.  After any sequence of add, remove and rename operations, neither *)
(* collection lists a path twice, and every listed path has an entry      *)
(* greater than 0 in the duration index of its collection.                 *)
(***************************************************************************)
NoDuplicates(paths) ==
    \A i, k \in DOMAIN paths : i # k => paths[i] # paths[k]

Indexed(paths, durations) ==
    \A i \in DOMAIN paths :
       paths[i] \in DOMAIN durations /\ durations[paths[i]] > 0

C20_CollectionInvariant ==
    /\ NoDuplicates(main_video_paths)
    /\ NoDuplicates(overlay_video_paths)
    /\ Indexed(main_video_paths, main_video_durations)
    /\ Indexed(overlay_video_paths, overlay_video_durations)

(***************************************************************************)
(* C13.  With use_gpu set, when no hardware encoder is listed and passes  *)
(* its test encode (it is not listed, the test exits non-zero, or a probe *)
(* raises), the job's encoder is libx264 and no exception reaches the     *)
(* job.                                                                    *)
(***************************************************************************)
\* the family is named by the encoder list and its test encode exits 0
passes(family) ==
    /\ gpu.listing = "ok"
    /\ family \in gpu.encoders
    /\ gpu.test[family] = "pass"

C13_SoftwareFallback ==
    (/\ gpu.video_encoder # "none"
     /\ gpu.use_gpu
     /\ \A f \in Range(Families) : ~passes(f))
       => gpu.video_encoder = "libx264"

\* NVENC is listed and its test fails, the AMF test raises: libx264
C13_Witness ==
    /\ gpu.use_gpu
    /\ gpu.listing = "ok"
    /\ gpu.encoders = Range(Families)
    /\ gpu.test["h264_nvenc"] = "fail"
    /\ gpu.test["h264_amf"] = "raise"
    /\ gpu.video_encoder = "libx264"
    /\ gpu.probes = 3

(***************************************************************************)
(* C14.  The encoder of the job is the reference: libx264 without any     *)
(* probe when use_gpu is clear; otherwise the first of h264_nvenc,        *)
(* h264_amf that is listed and passes its test encode; otherwise libx264. *)
(***************************************************************************)
reference_encoder ==
    IF ~gpu.use_gpu THEN "libx264"
    ELSE IF passes("h264_nvenc") THEN "h264_nvenc"
    ELSE IF passes("h264_amf") THEN "h264_amf"
    ELSE "libx264"

C14_NegotiationReference ==
    gpu.video_encoder # "none" =>
       /\ gpu.video_encoder = reference_encoder
       /\ ~gpu.use_gpu => gpu.probes = 0
       /\ passes("h264_nvenc") /\ gpu.use_gpu => gpu.video_encoder # "h264_amf"

(***************************************************************************)
(* C15.  When the NVENC test encode raises while h264_amf is listed and   *)
(* passes its test, the job's encoder is h264_amf, as it is when the      *)
(* NVENC test exits non-zero.                                              *)
(***************************************************************************)
C15_ProbeErrorIsUnavailable ==
    (/\ gpu.video_encoder # "none"
     /\ gpu.use_gpu
     /\ gpu.listing = "ok"
     /\ "h264_nvenc" \in gpu.encoders
     /\ gpu.test["h264_nvenc"] \in {"raise", "fail"}
     /\ passes("h264_amf"))
       => gpu.video_encoder = "h264_amf"

(***************************************************************************)
(* C16.  No two encoder processes that are running at the same time write *)
(* to the same output path.                                                *)
(***************************************************************************)
C16_DistinctOutputs ==
    \A j, k \in JobIds :
       (j # k /\ proc[j].st = "running" /\ proc[k].st = "running")
          => out_of(j) # out_of(k)

(***************************************************************************)
(* C17.  While the session is paused (processing and paused both set), no *)
(* step starts a job thread and no step spawns an encoder process.        *)
(***************************************************************************)
C17_PauseGatesDispatch ==
    [][(processing /\ paused) =>
          \A j \in JobIds :
             /\ job[j].pc = "none" => job'[j].pc = "none"
             /\ proc[j].st # "running" => proc'[j].st # "running"]_vars

(***************************************************************************)
(* C18.  While the session is paused the encoder of a job is never        *)
(* blocked (its next write into the stderr pipe returns although the      *)
(* monitor loop reads nothing), and an encoder that has exited while the  *)
(* session is paused is detected by the monitor loop, which carries the   *)
(* job to the check of its exit code and the verification of its output.  *)
(***************************************************************************)
\* the encoder is running and its next write does not return
encoder_blocked(j) == proc[j].st = "running" /\ pipe[j] = PipeCap

C18_PauseDoesNotSuspend ==
    [][(processing /\ paused) =>
          \A j \in JobIds :
             /\ ~encoder_blocked(j)
             /\ (job[j].pc = "monitor" /\ proc[j].st = "exited" /\ job'[j] # job[j])
                   => \/ job'[j].pc = "verify"
                      \/ job'[j].pc = "done" /\ job'[j].why = "exit"]_vars

(***************************************************************************)
(* C19.  sanitize_filename is idempotent: sanitizing a sanitized name     *)
(* returns it unchanged.                                                   *)
(***************************************************************************)
C19_SanitizeIdempotent ==
    Len(filename) = 3 => filename[3] = filename[2]


(***************************************************************************)
(* C21.  The progress shown is percentage = 100 * processed / total (0     *)
(* when total = 0), no ETA is produced while processed = 0, and within a   *)
(* batch processed never exceeds total, so the percentage stays within     *)
(* [0, 100].                                                               *)
(***************************************************************************)
C21_ProgressContract ==
    /\ \A d \in Drivers : drv[d].processed_count <= drv[d].total_videos
    /\ progress \in 0..100
    /\ (\A d \in Drivers : drv[d].processed_count = 0) /\ submits = 1
          => eta = "unknown"


(***************************************************************************)
(* C22.  A job that acquires its slot while the session is not in phase   *)
(* Running releases the slot at once and ends: it spawns no encoder and   *)
(* registers nothing in current_processes.                                 *)
(***************************************************************************)
C22_AcquireChecksPhase ==
    [][\A j \in JobIds :
          (/\ job[j].pc = "acquire"
           /\ phase # "Running"
           /\ job'[j] # job[j])
             => /\ job'[j].pc = "done"
                /\ sem' = sem
                /\ proc'[j].st = "none"
                /\ current_processes' = current_processes]_vars


in_with_block(j) == job[j].pc \notin {"none", "acquire", "done"}

C24_SlotReleased ==
    /\ sem = max_concurrent_processes
               - Cardinality({j \in JobIds : in_with_block(j)})
    /\ (\A j \in JobIds : ~job_alive(j)) => sem = max_concurrent_processes

\* no job thread is alive after a job that held a slot has failed
C24_Witness ==
    /\ \A j \in JobIds : ~job_alive(j)
    /\ \E j \in JobIds : job[j].pc = "done" /\ job[j].why = "exit"
    /\ sem = max_concurrent_processes


(***************************************************************************)
(* C25.  A job ends as completed only if the return code of its encoder   *)
(* was 0 and a file of non-zero size is at its output path when it is      *)
(* verified; a job whose encoder's return code was read as non-zero ends  *)
(* as failed.                                                              *)
(***************************************************************************)
C25_CompletedOnlyOnSuccess ==
    [][\A j \in JobIds :
          job_ends(j) =>
             /\ job'[j].outcome = "completed" =>
                   /\ job'[j].rc = <<0>>
                   /\ job[j].pc = "verify"
                   /\ files[out_of(j)] = "data"
                   /\ files'[out_of(j)] = "data"
             /\ (job'[j].rc # <<>> /\ job'[j].rc # <<0>>) =>
                   /\ job'[j].outcome = "failed"
                   /\ job'[j].why \in {"exit", "KeyError"}]_vars

\* one job has ended on a non-zero return code, another has completed
C25_Witness ==
    \E j, k \in JobIds :
       /\ job[j].pc = "done" /\ job[j].rc = <<1>> /\ job[j].why = "exit"
       /\ job[k].pc = "done" /\ job[k].outcome = "completed"


(***************************************************************************)
(* C26.  A tick of the monitor loop always returns: in every state in     *)
(* which a job is reading the output of its encoder, the read can return  *)
(* (with a line, or with the end of the stream), also while the encoder   *)
(* is running and has written nothing, so that the loop gets to test the  *)
(* stop and pause flags again.                                             *)
(***************************************************************************)
C26_ReadReturns ==
    \A j \in JobIds :
       job[j].pc = "readline" => ENABLED (pipe_readline(j) \/ job_readline_eof(j))


(***************************************************************************)
(* C27.  stop_processing called while the session is paused takes effect: *)
(* the call clears processing and leaves none of the processes of the map *)
(* running, its completion leaves the session Idle with paused cleared,   *)
(* and every encoder that is running during such a stop ends (its monitor *)
(* loop tests the stop flag before the pause flag).                        *)
(***************************************************************************)
C27_StopWhilePaused ==
    /\ [][/\ (ui_idle /\ processing /\ paused /\ ui' = "stop_clear") =>
                /\ ~processing'
                /\ \A k \in DOMAIN current_processes :
                      proc'[current_processes[k]].st # "running"
          /\ (ui = "stop_clear" /\ ui' = "stopped") =>
                (~paused' /\ phase' = "Idle")]_vars
    /\ \A j \in JobIds :
          (ui = "stop_clear" /\ paused /\ proc[j].st = "running")
             ~> (proc[j].st # "running")


(***************************************************************************)
(* C28.  toggle_pause and stop_processing called while processing is      *)
(* clear change nothing (processing, paused, current_processes and the    *)
(* rest of the session are as before), and a toggle_pause while           *)
(* processing is set changes the paused flag and nothing else.            *)
(***************************************************************************)
C28_IdleCallsAreNoOps ==
    [][/\ (ui # "ignored" /\ ui' = "ignored") =>
             /\ ~processing
             /\ UNCHANGED <<processing, paused, current_processes, sem,
                            progress, eta, files, submits, drv, job, proc>>
       /\ (processing /\ processing' /\ paused' # paused) =>
             UNCHANGED <<static, current_processes, sem, progress, eta,
                         files, ui, submits, drv, job, proc>>]_vars

\* a call was ignored after a batch that was paused ended by itself, with
\* the flag left as the batch left it
C28_Witness == ui = "ignored" /\ paused /\ ~processing


(***************************************************************************)
(* C29.  Releasing the key never raises: on every path on which a job     *)
(* thread ends (the early return at the acquisition of the slot and the   *)
(* failures before the encoder is spawned included) and under every       *)
(* interleaving with stop_processing or a driver clearing the map between *)
(* the membership test and the delete, the cleanup of the job has raised  *)
(* no error.                                                               *)
(***************************************************************************)
C29_CleanupNeverFails == \A j \in JobIds : job[j].cleanup = "ok"


(***************************************************************************)
(* C30.  A batch started after a stop is not disturbed by the batch       *)
(* before it: once a later start_processing has set processing, the       *)
(* driver of an earlier batch neither runs its finally block (which       *)
(* clears processing and the map) nor starts a job thread for one of its  *)
(* remaining main assets.                                                  *)
(***************************************************************************)
C30_PreviousBatchIsGone ==
    [][\A d \in Drivers :
          (d < submits /\ drv_alive(d)) =>
             /\ drv'[d].pc # "done"
             /\ \A i \in 1..Cardinality(MainPaths) :
                   job[<<d, i>>].pc = "none" => job'[<<d, i>>].pc = "none"]_vars


(***************************************************************************)
(* C31.  No encoder process is spawned while processing is false: a job   *)
(* that passed its check at the acquisition of the slot does not start an *)
(* encoder once stop_processing has cleared the flag (and no later        *)
(* start_processing has set it again).                                     *)
(***************************************************************************)
C31_NoSpawnAfterStop ==
    [][\A j \in JobIds :
          (proc[j].st # "running" /\ proc'[j].st = "running") => processing]_vars


(***************************************************************************)
(* C32.  While a batch runs the progress value never decreases: the write *)
(* of the job thread, made with the processed count from before the       *)
(* dispatch, never replaces the later value the driver wrote with the     *)
(* incremented count.                                                      *)
(***************************************************************************)
C32_ProgressMonotone ==
    [][(processing /\ processing') => progress' >= progress]_vars


(***************************************************************************)
(* C33.  A job that fails before its encoder process is spawned (during   *)
(* the preparation: output directory, dimensions, encoder selection,      *)
(* Popen) leaves every file as it was, in particular a file that already  *)
(* existed at its output path before the job started.                      *)
(***************************************************************************)
C33_SetupFailureKeepsFile ==
    [][\A j \in JobIds :
          (job[j].pc = "prep" /\ job'[j].pc = "done") => files' = files]_vars


(***************************************************************************)
(* C34.  Within one batch, jobs for distinct main assets write distinct   *)
(* output paths: a step of the job of one main asset of the list changes  *)
(* no file at an output path of another main asset of the list, so that a *)
(* later job does not overwrite (or remove) what an earlier job of the    *)
(* batch produced.                                                         *)
(***************************************************************************)
C34_DistinctOutputs ==
    [][\A k \in JobIds :
          job'[k] # job[k] =>
             \A i \in DOMAIN main_video_paths :
                \A overlay_video_path \in Range(overlay_video_paths) :
                   i # k[2] =>
                      files'[output_path(main_video_paths[i], overlay_video_path)]
                         = files[output_path(main_video_paths[i], overlay_video_path)]]_vars

====
